---- MODULE Spec2Model ----
(***************************************************************************)
(* Model of the Steel package (bolt.py, connected_element.py, weld.py):    *)
(* stateless limit-state calculators over pint quantities.                 *)
(*                                                                         *)
(* Numbers are exact rationals <<n, d>> (d > 0, lowest terms): Python's    *)
(* float operators +, -, *, / are modelled by exact rational arithmetic,   *)
(* so rounding in the last bit is outside the model.  The two irrational   *)
(* float constants math.pi/4 and math.sqrt(2)/2 are rational               *)
(* approximations (PiOver4, Sqrt2Over2); Sqrt2Over2 differs from the       *)
(* literal 0.707 as it does in the source.                                 *)
(*                                                                         *)
(* A quantity is [mag, unit]; the result of a call is [kind, val] where    *)
(* kind is "ok" or the name of the Python exception that ends the call.    *)
(* Strength results carry the unit ksi*inch^2 (kip); val holds magnitudes. *)
(***************************************************************************)
EXTENDS Integers, Sequences, FiniteSets, TLC

VARIABLES design_method, fn, args, ret

vars == <<design_method, fn, args, ret>>

(***************************************************************************)
(* Exact rational arithmetic (Python float operators).                     *)
(***************************************************************************)
Abs(x) == IF x < 0 THEN -x ELSE x

RECURSIVE GCD(_, _)
GCD(a, b) == IF b = 0 THEN a ELSE GCD(b, a % b)

Norm(n, d) ==
    LET g == GCD(Abs(n), Abs(d))
        s == IF d < 0 THEN -1 ELSE 1
    IN  <<s * (n \div g), s * (d \div g)>>

R(n, d) == Norm(n, d)

RIsZero(a) == a[1] = 0

RNeg(a) == <<-a[1], a[2]>>

RAdd(a, b) ==
    LET g == GCD(a[2], b[2])
    IN  Norm(a[1] * (b[2] \div g) + b[1] * (a[2] \div g), (a[2] \div g) * b[2])

RSub(a, b) == RAdd(a, RNeg(b))

RMul(a, b) ==
    LET g1 == GCD(Abs(a[1]), b[2])
        g2 == GCD(Abs(b[1]), a[2])
    IN  Norm((a[1] \div g1) * (b[1] \div g2), (a[2] \div g2) * (b[2] \div g1))

\* a / b for b # 0 (the callers raise ZeroDivisionError when b = 0)
RDiv(a, b) == RMul(a, IF b[1] > 0 THEN <<b[2], b[1]>> ELSE <<-b[2], -b[1]>>)

\* a < b, by cross-multiplication after cancelling the common factors
RLt(a, b) ==
    LET g  == GCD(a[2], b[2])
        h0 == GCD(Abs(a[1]), Abs(b[1]))
        h  == IF h0 = 0 THEN 1 ELSE h0
    IN  (a[1] \div h) * (b[2] \div g) < (b[1] \div h) * (a[2] \div g)

RLe(a, b) == ~RLt(b, a)

RMin(a, b) == IF RLt(b, a) THEN b ELSE a

(***************************************************************************)
(* pint quantities: unit registry, dimensions and .to() conversion.        *)
(***************************************************************************)
Q(n, d, u) == [mag |-> R(n, d), unit |-> u]

Dimension(u) == IF u \in {"inch", "mm"} THEN "length" ELSE "stress"

\* number of canonical units (inch, ksi) in one unit u
UnitFactor(u) ==
    CASE u = "inch" -> R(1, 1)
      [] u = "mm"   -> R(5, 127)
      [] u = "ksi"  -> R(1, 1)
      [] u = "psi"  -> R(1, 1000)

\* q.to(target) succeeds iff the dimensions agree
Convertible(q, target) == Dimension(q.unit) = Dimension(target)

\* variant that takes the magnitude as it is, without converting
To_unconverted(q, target) == q.mag

\* magnitude of q.to(target), for Convertible(q, target)
To(q, target) == RDiv(RMul(q.mag, UnitFactor(q.unit)), UnitFactor(target))

Ok(v) == [kind |-> "ok", val |-> v]
Raise(e) == [kind |-> e]
NoneValue == <<0, 0>>

(***************************************************************************)
(* Float constants of the source.                                          *)
(***************************************************************************)
PiOver4 == R(355, 452)
Sqrt2Over2 == R(7071, 10000)

(***************************************************************************)
(* bolt.py                                                                 *)
(***************************************************************************)
nominal_fastener_strength(q) ==
    IF ~Convertible(q, "ksi") THEN Raise("DimensionalityError")
    ELSE
    LET f_u == To(q, "ksi")
    IN  Ok(<<RMul(R(45, 100), f_u), RMul(R(75, 100), f_u)>>)

shear_strength_bolts_Dims(a) ==
    /\ Convertible(a.f_u, "ksi")
    /\ Convertible(a.bolt_dia, "inch")

shear_strength_bolts(a) ==
    IF ~shear_strength_bolts_Dims(a) THEN Raise("DimensionalityError")
    ELSE
    LET f_nv     == nominal_fastener_strength(a.f_u).val[1]
        bolt_dia == To(a.bolt_dia, "inch")
        r_n      == RMul(RMul(f_nv, PiOver4), RMul(bolt_dia, bolt_dia))
    IN  IF a.design_method = "ASD" THEN Ok(RDiv(r_n, R(200, 100)))
        ELSE IF a.design_method = "LRFD" THEN Ok(RMul(R(75, 100), r_n))
        ELSE Raise("ValueError")

bearing_strength_bolts_Dims(a) ==
    /\ Convertible(a.bolt_dia, "inch")
    /\ Convertible(a.part1_t, "inch")
    /\ Convertible(a.part2_t, "inch")
    /\ Convertible(a.part1_ult, "ksi")
    /\ Convertible(a.part2_ult, "ksi")

\* variant that returns the governing (smaller) strength for both parts
bearing_strength_bolts_governing(a) ==
    IF ~bearing_strength_bolts_Dims(a) THEN Raise("DimensionalityError")
    ELSE
    LET bolt_dia  == To(a.bolt_dia, "inch")
        r_n1 == RMul(RMul(RMul(R(24, 10), bolt_dia), To(a.part1_t, "inch")),
                     To(a.part1_ult, "ksi"))
        r_n2 == RMul(RMul(RMul(R(24, 10), bolt_dia), To(a.part2_t, "inch")),
                     To(a.part2_ult, "ksi"))
        r_n  == RMin(r_n1, r_n2)
    IN  IF a.design_method = "ASD"
        THEN Ok(<<RDiv(r_n, R(200, 100)), RDiv(r_n, R(200, 100))>>)
        ELSE IF a.design_method = "LRFD"
        THEN Ok(<<RMul(R(75, 100), r_n), RMul(R(75, 100), r_n)>>)
        ELSE Raise("ValueError")

bearing_strength_bolts(a) ==
    IF ~bearing_strength_bolts_Dims(a) THEN Raise("DimensionalityError")
    ELSE
    LET bolt_dia  == To(a.bolt_dia, "inch")
        part1_t   == To(a.part1_t, "inch")
        part2_t   == To(a.part2_t, "inch")
        part1_ult == To(a.part1_ult, "ksi")
        part2_ult == To(a.part2_ult, "ksi")
        r_n1 == RMul(RMul(RMul(R(24, 10), bolt_dia), part1_t), part1_ult)
        r_n2 == RMul(RMul(RMul(R(24, 10), bolt_dia), part2_t), part2_ult)
    IN  IF a.design_method = "ASD"
        THEN Ok(<<RDiv(r_n1, R(200, 100)), RDiv(r_n2, R(200, 100))>>)
        ELSE IF a.design_method = "LRFD"
        THEN Ok(<<RMul(R(75, 100), r_n1), RMul(R(75, 100), r_n2)>>)
        ELSE Raise("ValueError")

\* 0.125 * ureg.inch
tearout_hole_oversize_as_clearance == R(63, 1000)
tearout_hole_oversize == R(125, 1000)

tearout_strength_bolts_Dims(a) ==
    /\ Convertible(a.bolt_dia, "inch")
    /\ Convertible(a.part1_edge_dist, "inch")
    /\ Convertible(a.part2_edge_dist, "inch")
    /\ Convertible(a.part1_t, "inch")
    /\ Convertible(a.part2_t, "inch")
    /\ Convertible(a.part1_ult, "ksi")
    /\ Convertible(a.part2_ult, "ksi")

tearout_strength_bolts(a) ==
    IF ~tearout_strength_bolts_Dims(a) THEN Raise("DimensionalityError")
    ELSE
    LET bolt_dia        == To(a.bolt_dia, "inch")
        part1_edge_dist == To(a.part1_edge_dist, "inch")
        part2_edge_dist == To(a.part2_edge_dist, "inch")
        part1_t   == To(a.part1_t, "inch")
        part2_t   == To(a.part2_t, "inch")
        part1_ult == To(a.part1_ult, "ksi")
        part2_ult == To(a.part2_ult, "ksi")
        net_dist_1 == RSub(part1_edge_dist, RDiv(RAdd(bolt_dia, tearout_hole_oversize), R(2, 1)))
        net_dist_2 == RSub(part2_edge_dist, RDiv(RAdd(bolt_dia, tearout_hole_oversize), R(2, 1)))
        r_n1 == RMul(RMul(RMul(R(12, 10), net_dist_1), part1_t), part1_ult)
        r_n2 == RMul(RMul(RMul(R(12, 10), net_dist_2), part2_t), part2_ult)
    IN  IF a.design_method = "ASD"
        THEN Ok(<<RDiv(r_n1, R(200, 100)), RDiv(r_n2, R(200, 100))>>)
        ELSE IF a.design_method = "LRFD"
        THEN Ok(<<RMul(R(75, 100), r_n1), RMul(R(75, 100), r_n2)>>)
        ELSE Raise("ValueError")

tensile_strength_bolts(a) ==
    IF ~shear_strength_bolts_Dims(a) THEN Raise("DimensionalityError")
    ELSE
    LET f_nt     == nominal_fastener_strength(a.f_u).val[2]
        bolt_dia == To(a.bolt_dia, "inch")
        r_n      == RMul(RMul(f_nt, PiOver4), RMul(bolt_dia, bolt_dia))
    IN  IF a.design_method = "ASD" THEN Ok(RDiv(r_n, R(200, 100)))
        ELSE IF a.design_method = "LRFD" THEN Ok(RMul(R(75, 100), r_n))
        ELSE Raise("ValueError")

(***************************************************************************)
(* connected_element.py                                                    *)
(***************************************************************************)
yield_Dims(a) ==
    /\ Convertible(a.part1_t, "inch")
    /\ Convertible(a.part1_len, "inch")
    /\ Convertible(a.part1_yield, "ksi")
    /\ Convertible(a.part2_t, "inch")
    /\ Convertible(a.part2_len, "inch")
    /\ Convertible(a.part2_yield, "ksi")

connected_elem_shear_yield_str(a) ==
    IF ~yield_Dims(a) THEN Raise("DimensionalityError")
    ELSE
    LET part1_t     == To(a.part1_t, "inch")
        part1_len   == To(a.part1_len, "inch")
        part1_yield == To(a.part1_yield, "ksi")
        part2_t     == To(a.part2_t, "inch")
        part2_len   == To(a.part2_len, "inch")
        part2_yield == To(a.part2_yield, "ksi")
        r_n1 == RMul(RMul(R(60, 100), part1_yield), RMul(part1_t, part1_len))
        r_n2 == RMul(RMul(R(60, 100), part2_yield), RMul(part2_t, part2_len))
    IN  IF a.design_method = "ASD"
        THEN Ok(<<RDiv(r_n1, R(150, 100)), RDiv(r_n2, R(150, 100))>>)
        ELSE IF a.design_method = "LRFD"
        THEN Ok(<<RMul(R(100, 100), r_n1), RMul(R(100, 100), r_n2)>>)
        ELSE Raise("ValueError")

rupture_Dims(a) ==
    /\ Convertible(a.bolt_dia, "inch")
    /\ Convertible(a.part1_t, "inch")
    /\ Convertible(a.part1_len, "inch")
    /\ Convertible(a.part1_ult, "ksi")
    /\ Convertible(a.part2_t, "inch")
    /\ Convertible(a.part2_len, "inch")
    /\ Convertible(a.part2_ult, "ksi")

\* 0.063 inch: assumed bolt hole clearance
shear_rupture_clearance_as_oversize == R(125, 1000)
shear_rupture_clearance == R(63, 1000)

connected_elem_shear_rupture_str(a) ==
    IF ~rupture_Dims(a) THEN Raise("DimensionalityError")
    ELSE
    LET bolt_dia  == To(a.bolt_dia, "inch")
        part1_t   == To(a.part1_t, "inch")
        part1_len == To(a.part1_len, "inch")
        part1_ult == To(a.part1_ult, "ksi")
        part2_t   == To(a.part2_t, "inch")
        part2_len == To(a.part2_len, "inch")
        part2_ult == To(a.part2_ult, "ksi")
        net_width_1 == RSub(part1_len, RMul(RAdd(bolt_dia, shear_rupture_clearance), R(a.bolt_count, 1)))
        net_width_2 == RSub(part2_len, RMul(RAdd(bolt_dia, shear_rupture_clearance), R(a.bolt_count, 1)))
        a_nv1 == RMul(part1_t, net_width_1)
        a_nv2 == RMul(part2_t, net_width_2)
        r_n1 == RMul(RMul(R(60, 100), part1_ult), a_nv1)
        r_n2 == RMul(RMul(R(60, 100), part2_ult), a_nv2)
    IN  IF a.design_method = "ASD"
        THEN Ok(<<RDiv(r_n1, R(200, 100)), RDiv(r_n2, R(200, 100))>>)
        ELSE IF a.design_method = "LRFD"
        THEN Ok(<<RMul(R(75, 100), r_n1), RMul(R(75, 100), r_n2)>>)
        ELSE Raise("ValueError")

\* fos = 1.67
tensile_yield_fos_as_shear_yield == R(150, 100)
tensile_yield_fos == R(167, 100)

connected_elem_tensile_yield_str(a) ==
    IF ~yield_Dims(a) THEN Raise("DimensionalityError")
    ELSE
    LET part1_t     == To(a.part1_t, "inch")
        part1_len   == To(a.part1_len, "inch")
        part1_yield == To(a.part1_yield, "ksi")
        part2_t     == To(a.part2_t, "inch")
        part2_len   == To(a.part2_len, "inch")
        part2_yield == To(a.part2_yield, "ksi")
        r_n1 == RMul(part1_yield, RMul(part1_t, part1_len))
        r_n2 == RMul(part2_yield, RMul(part2_t, part2_len))
    IN  IF a.design_method = "ASD"
        THEN Ok(<<RDiv(r_n1, tensile_yield_fos), RDiv(r_n2, tensile_yield_fos)>>)
        ELSE IF a.design_method = "LRFD"
        THEN Ok(<<RMul(R(90, 100), r_n1), RMul(R(90, 100), r_n2)>>)
        ELSE Raise("ValueError")

\* 0.063 inch: assumed bolt hole clearance
tensile_rupture_clearance_as_oversize == R(125, 1000)
tensile_rupture_clearance == R(63, 1000)

connected_elem_tensile_rupture_str(a) ==
    IF ~rupture_Dims(a) THEN Raise("DimensionalityError")
    ELSE
    LET bolt_dia  == To(a.bolt_dia, "inch")
        part1_t   == To(a.part1_t, "inch")
        part1_len == To(a.part1_len, "inch")
        part1_ult == To(a.part1_ult, "ksi")
        part2_t   == To(a.part2_t, "inch")
        part2_len == To(a.part2_len, "inch")
        part2_ult == To(a.part2_ult, "ksi")
        net_width_1 == RSub(part1_len, RMul(RAdd(bolt_dia, tensile_rupture_clearance), R(a.bolt_count, 1)))
        net_width_2 == RSub(part2_len, RMul(RAdd(bolt_dia, tensile_rupture_clearance), R(a.bolt_count, 1)))
        a_nv1 == RMul(part1_t, net_width_1)
        a_nv2 == RMul(part2_t, net_width_2)
        r_n1 == RMul(RMul(part1_ult, a_nv1), a.shear_lag)
        r_n2 == RMul(RMul(part2_ult, a_nv2), a.shear_lag)
    IN  IF a.design_method = "ASD"
        THEN Ok(<<RDiv(r_n1, R(200, 100)), RDiv(r_n2, R(200, 100))>>)
        ELSE IF a.design_method = "LRFD"
        THEN Ok(<<RMul(R(75, 100), r_n1), RMul(R(75, 100), r_n2)>>)
        ELSE Raise("ValueError")

(***************************************************************************)
(* weld.py                                                                 *)
(***************************************************************************)
\* t_min < 0.25 * ureg.inch
first_bracket_inclusive(t_min) == RLe(t_min, R(1, 4))
first_bracket_nonnegative(t_min) == RLe(R(0, 1), t_min) /\ RLt(t_min, R(1, 4))
first_bracket(t_min) == RLt(t_min, R(1, 4))

min_weld_size_Dims(a) ==
    /\ Convertible(a.part1_t, "inch")
    /\ Convertible(a.part2_t, "inch")

min_weld_size(a) ==
    IF ~min_weld_size_Dims(a) THEN Raise("DimensionalityError")
    ELSE
    LET part1_t == To(a.part1_t, "inch")
        part2_t == To(a.part2_t, "inch")
        t_min   == RMin(part1_t, part2_t)
    IN  IF first_bracket(t_min) THEN Ok(R(1250, 10000))
        ELSE IF RLe(R(1, 4), t_min) /\ RLt(t_min, R(1, 2)) THEN Ok(R(1875, 10000))
        ELSE IF RLe(R(1, 2), t_min) /\ RLt(t_min, R(3, 4)) THEN Ok(R(2500, 10000))
        ELSE IF RLe(R(3, 4), t_min) THEN Ok(R(3125, 10000))
        ELSE Ok(NoneValue)

weld_material_strength(a) ==
    IF ~Convertible(a.weld_length, "inch") THEN Raise("DimensionalityError")
    ELSE
    LET weld_length == To(a.weld_length, "inch")
        r_n == RMul(RMul(RMul(RMul(RMul(R(60, 100), R(70, 1)), Sqrt2Over2),
                              R(a.weld_size, 16)), weld_length), R(a.weld_sides, 1))
    IN  IF a.design_method = "ASD" THEN Ok(RDiv(r_n, R(200, 100)))
        ELSE IF a.design_method = "LRFD" THEN Ok(RMul(R(75, 100), r_n))
        ELSE Raise("ValueError")

\* 0.707 for 45-degree fillet
throat_factor_as_sqrt == Sqrt2Over2
throat_factor == R(707, 1000)

weld_rupture_strength_Dims(a) ==
    /\ Convertible(a.weld_length, "inch")
    /\ Convertible(a.part1_t, "inch")
    /\ Convertible(a.part2_t, "inch")
    /\ Convertible(a.part1_ult, "ksi")
    /\ Convertible(a.part2_ult, "ksi")

\* variant that takes the one-sided thickness for a two-sided weld as well
min_thickness_sides_single(weld_sides) == R(1, 1)

\* the multiple of the one-sided required thickness (lines 110-115):
\* weld_sides == 1 uses it as it is, weld_sides == 2 doubles it
min_thickness_sides(weld_sides) == R(weld_sides, 1)

weld_rupture_strength(a) ==
    IF ~weld_rupture_strength_Dims(a) THEN Raise("DimensionalityError")
    ELSE
    LET part1_t   == To(a.part1_t, "inch")
        part2_t   == To(a.part2_t, "inch")
        part1_ult == To(a.part1_ult, "ksi")
        part2_ult == To(a.part2_ult, "ksi")
        throat_area == RMul(throat_factor, R(a.weld_size, 16))
        weld_strength_per_length == RMul(RMul(R(60, 100), R(70, 1)), throat_area)
        d1 == RMul(R(6, 10), part1_ult)
        d2 == RMul(R(6, 10), part2_ult)
        k  == min_thickness_sides(a.weld_sides)
    IN  IF a.weld_sides \in {1, 2} /\ (RIsZero(d1) \/ RIsZero(d2))
        THEN Raise("ZeroDivisionError")
        \* neither branch binds t1_min: line 118 reads an unbound local
        ELSE IF a.weld_sides \notin {1, 2} THEN Raise("UnboundLocalError")
        ELSE
        LET t1_min == RDiv(RMul(k, weld_strength_per_length), d1)
            t2_min == RDiv(RMul(k, weld_strength_per_length), d2)
        IN  IF RIsZero(t1_min) \/ RIsZero(t2_min) THEN Raise("ZeroDivisionError")
            ELSE
            LET reduction_1 == RDiv(part1_t, t1_min)
                reduction_2 == RDiv(part2_t, t2_min)
                weld_mat_strength ==
                    weld_material_strength([design_method |-> a.design_method,
                                            weld_size |-> a.weld_size,
                                            weld_length |-> a.weld_length,
                                            weld_sides |-> a.weld_sides])
            IN  IF weld_mat_strength.kind # "ok" THEN weld_mat_strength
                ELSE IF RLt(reduction_1, R(1, 1)) \/ RLt(reduction_2, R(1, 1))
                THEN Ok(RMul(weld_mat_strength.val, RMin(reduction_1, reduction_2)))
                ELSE Ok(weld_mat_strength.val)

(***************************************************************************)
(* Bounded inputs of the calls.                                            *)
(***************************************************************************)
MaxDia8 == 6
MaxEdge16 == 7
MaxBoltCount == 3
MaxWeldSize == 3
MaxWeldSides == 3
MaxWeldThick8 == 7

Methods == {"ASD", "LRFD", "XYZ"}

\* bolt diameters: 3/4in .. MaxDia8/8in, and 15.875mm (= 5/8in)
DiaSet == {Q(k, 8, "inch") : k \in 6..MaxDia8} \cup {Q(15875, 1000, "mm")}

\* plate thicknesses: 0, 1/4in and 12.7mm (= 1/2in)
ThickSet == {Q(0, 1, "inch"), Q(1, 4, "inch"), Q(127, 10, "mm")}

\* ultimate and yield stresses
UltSet == {Q(58, 1, "ksi"), Q(65000, 1, "psi")}
YieldSet == {Q(36, 1, "ksi"), Q(50000, 1, "psi")}

\* bolt materials; for nominal_fastener_strength also a length passed where
\* a stress is expected
BoltUltSet == {Q(120, 1, "ksi"), Q(150000, 1, "psi")}
BoltUltAnySet == BoltUltSet \cup {Q(1, 1, "inch")}

\* edge distances in sixteenths of an inch
EdgeSet == {Q(k, 16, "inch") : k \in 5..MaxEdge16}

\* plate lengths: 1.626in (= 2 * (3/4 + 0.063)) and 3in
LenSet == {Q(813, 500, "inch"), Q(3, 1, "inch")}

BoltCounts == 0..MaxBoltCount

ShearLags == {R(1, 1), R(3, 4)}

\* weld sizes in sixteenths, weld sides, weld lengths
WeldSizes == 1..MaxWeldSize
WeldSides == 1..MaxWeldSides
WeldLenSet == {Q(6, 1, "inch"), Q(254, 1, "mm")}

\* thicknesses for min_weld_size: -1/4in .. MaxWeldThick8/8in, metric ones,
\* and a stress passed where a length is expected
WeldThickSet ==
    {Q(k, 8, "inch") : k \in (-2)..MaxWeldThick8}
        \cup {Q(127, 20, "mm"), Q(19, 1, "mm"), Q(50, 1, "ksi")}

\* base-metal thicknesses and strengths for weld_rupture_strength
BaseThickSet == {Q(1, 16, "inch"), Q(1, 8, "inch"), Q(127, 10, "mm")}
BaseUltSet == {Q(58, 1, "ksi"), Q(65000, 1, "psi")}

(***************************************************************************)
(* One call of a public function: fn names it, args holds its arguments,   *)
(* ret its outcome.  design_method is the method string the caller passes  *)
(* to the functions that take one.                                         *)
(***************************************************************************)
Init ==
    /\ design_method \in Methods
    /\ fn = "none"
    /\ args = <<>>
    /\ ret = [kind |-> "none"]

Call_nominal_fastener_strength ==
    /\ fn = "none"
    /\ UNCHANGED design_method
    /\ \E f \in BoltUltAnySet :
         /\ fn' = "nominal_fastener_strength"
         /\ args' = [f_u |-> f]
         /\ ret' = nominal_fastener_strength(f)

Call_shear_strength_bolts ==
    /\ fn = "none"
    /\ UNCHANGED design_method
    /\ \E d \in DiaSet, f \in BoltUltSet :
         LET a == [design_method |-> design_method, bolt_dia |-> d, f_u |-> f]
         IN  /\ fn' = "shear_strength_bolts"
             /\ args' = a
             /\ ret' = shear_strength_bolts(a)

Call_tensile_strength_bolts ==
    /\ fn = "none"
    /\ UNCHANGED design_method
    /\ \E d \in DiaSet, f \in BoltUltSet :
         LET a == [design_method |-> design_method, bolt_dia |-> d, f_u |-> f]
         IN  /\ fn' = "tensile_strength_bolts"
             /\ args' = a
             /\ ret' = tensile_strength_bolts(a)

Call_bearing_strength_bolts ==
    /\ fn = "none"
    /\ UNCHANGED design_method
    /\ \E d \in DiaSet, t1 \in ThickSet, t2 \in ThickSet,
          u1 \in UltSet, u2 \in UltSet :
         LET a == [design_method |-> design_method, bolt_dia |-> d,
                   part1_t |-> t1, part1_ult |-> u1,
                   part2_t |-> t2, part2_ult |-> u2]
         IN  /\ fn' = "bearing_strength_bolts"
             /\ args' = a
             /\ ret' = bearing_strength_bolts(a)

Call_tearout_strength_bolts ==
    /\ fn = "none"
    /\ UNCHANGED design_method
    /\ \E d \in DiaSet, e1 \in EdgeSet, e2 \in EdgeSet,
          t1 \in ThickSet, t2 \in ThickSet, u1 \in UltSet, u2 \in UltSet :
         LET a == [design_method |-> design_method, bolt_dia |-> d,
                   part1_edge_dist |-> e1, part2_edge_dist |-> e2,
                   part1_t |-> t1, part1_ult |-> u1,
                   part2_t |-> t2, part2_ult |-> u2]
         IN  /\ fn' = "tearout_strength_bolts"
             /\ args' = a
             /\ ret' = tearout_strength_bolts(a)

Call_connected_elem_shear_yield_str ==
    /\ fn = "none"
    /\ UNCHANGED design_method
    /\ \E t1 \in ThickSet, t2 \in ThickSet, l1 \in LenSet,
          l2 \in LenSet, y1 \in YieldSet, y2 \in YieldSet :
         LET a == [design_method |-> design_method,
                   part1_t |-> t1, part1_len |-> l1, part1_yield |-> y1,
                   part2_t |-> t2, part2_len |-> l2, part2_yield |-> y2]
         IN  /\ fn' = "connected_elem_shear_yield_str"
             /\ args' = a
             /\ ret' = connected_elem_shear_yield_str(a)

Call_connected_elem_tensile_yield_str ==
    /\ fn = "none"
    /\ UNCHANGED design_method
    /\ \E t1 \in ThickSet, t2 \in ThickSet, l1 \in LenSet,
          l2 \in LenSet, y1 \in YieldSet, y2 \in YieldSet :
         LET a == [design_method |-> design_method,
                   part1_t |-> t1, part1_len |-> l1, part1_yield |-> y1,
                   part2_t |-> t2, part2_len |-> l2, part2_yield |-> y2]
         IN  /\ fn' = "connected_elem_tensile_yield_str"
             /\ args' = a
             /\ ret' = connected_elem_tensile_yield_str(a)

Call_connected_elem_shear_rupture_str ==
    /\ fn = "none"
    /\ UNCHANGED design_method
    /\ \E d \in DiaSet, n \in BoltCounts,
          t1 \in ThickSet, t2 \in ThickSet, l1 \in LenSet, l2 \in LenSet,
          u1 \in UltSet, u2 \in UltSet :
         LET a == [design_method |-> design_method, bolt_dia |-> d, bolt_count |-> n,
                   part1_t |-> t1, part1_len |-> l1, part1_ult |-> u1,
                   part2_t |-> t2, part2_len |-> l2, part2_ult |-> u2]
         IN  /\ fn' = "connected_elem_shear_rupture_str"
             /\ args' = a
             /\ ret' = connected_elem_shear_rupture_str(a)

Call_connected_elem_tensile_rupture_str ==
    /\ fn = "none"
    /\ UNCHANGED design_method
    /\ \E d \in DiaSet, n \in BoltCounts, lag \in ShearLags,
          t1 \in ThickSet, t2 \in ThickSet, l1 \in LenSet, l2 \in LenSet,
          u1 \in UltSet, u2 \in UltSet :
         LET a == [design_method |-> design_method, bolt_dia |-> d, bolt_count |-> n,
                   shear_lag |-> lag,
                   part1_t |-> t1, part1_len |-> l1, part1_ult |-> u1,
                   part2_t |-> t2, part2_len |-> l2, part2_ult |-> u2]
         IN  /\ fn' = "connected_elem_tensile_rupture_str"
             /\ args' = a
             /\ ret' = connected_elem_tensile_rupture_str(a)

Call_min_weld_size ==
    /\ fn = "none"
    /\ UNCHANGED design_method
    /\ \E t1 \in WeldThickSet, t2 \in WeldThickSet :
         LET a == [part1_t |-> t1, part2_t |-> t2]
         IN  /\ fn' = "min_weld_size"
             /\ args' = a
             /\ ret' = min_weld_size(a)

Call_weld_material_strength ==
    /\ fn = "none"
    /\ UNCHANGED design_method
    /\ \E w \in WeldSizes, l \in WeldLenSet, k \in WeldSides :
         LET a == [design_method |-> design_method, weld_size |-> w,
                   weld_length |-> l, weld_sides |-> k]
         IN  /\ fn' = "weld_material_strength"
             /\ args' = a
             /\ ret' = weld_material_strength(a)

Call_weld_rupture_strength ==
    /\ fn = "none"
    /\ UNCHANGED design_method
    /\ \E w \in WeldSizes, l \in WeldLenSet, k \in WeldSides,
          t1 \in BaseThickSet, t2 \in BaseThickSet,
          u1 \in BaseUltSet, u2 \in BaseUltSet :
         LET a == [design_method |-> design_method, weld_size |-> w,
                   weld_length |-> l, weld_sides |-> k,
                   part1_t |-> t1, part1_ult |-> u1,
                   part2_t |-> t2, part2_ult |-> u2]
         IN  /\ fn' = "weld_rupture_strength"
             /\ args' = a
             /\ ret' = weld_rupture_strength(a)

Next ==
    \/ Call_nominal_fastener_strength
    \/ Call_shear_strength_bolts
    \/ Call_tensile_strength_bolts
    \/ Call_bearing_strength_bolts
    \/ Call_tearout_strength_bolts
    \/ Call_connected_elem_shear_yield_str
    \/ Call_connected_elem_tensile_yield_str
    \/ Call_connected_elem_shear_rupture_str
    \/ Call_connected_elem_tensile_rupture_str
    \/ Call_min_weld_size
    \/ Call_weld_material_strength
    \/ Call_weld_rupture_strength

Spec == Init /\ [][Next]_vars

(***************************************************************************)
(* Vocabulary of the properties.                                           *)
(***************************************************************************)
ScalarLimitStates ==
    {"shear_strength_bolts", "tensile_strength_bolts", "weld_material_strength"}

PairLimitStates ==
    {"bearing_strength_bolts", "tearout_strength_bolts",
     "connected_elem_shear_yield_str", "connected_elem_shear_rupture_str",
     "connected_elem_tensile_yield_str", "connected_elem_tensile_rupture_str"}

LimitStates == ScalarLimitStates \cup PairLimitStates \cup {"weld_rupture_strength"}

\* every quantity argument of the call has the dimension its parameter expects
DimsOK ==
    CASE fn \in {"shear_strength_bolts", "tensile_strength_bolts"} ->
            shear_strength_bolts_Dims(args)
      [] fn = "bearing_strength_bolts" -> bearing_strength_bolts_Dims(args)
      [] fn = "tearout_strength_bolts" -> tearout_strength_bolts_Dims(args)
      [] fn \in {"connected_elem_shear_yield_str",
                 "connected_elem_tensile_yield_str"} -> yield_Dims(args)
      [] fn \in {"connected_elem_shear_rupture_str",
                 "connected_elem_tensile_rupture_str"} -> rupture_Dims(args)
      [] fn = "weld_material_strength" -> Convertible(args.weld_length, "inch")
      [] fn = "weld_rupture_strength" -> weld_rupture_strength_Dims(args)
      [] fn = "min_weld_size" -> min_weld_size_Dims(args)
      [] fn = "nominal_fastener_strength" -> Convertible(args.f_u, "ksi")
      [] OTHER -> FALSE

ValidMethod == args.design_method \in {"ASD", "LRFD"}

Zero == R(0, 1)
One == R(1, 1)
In(q) == To(q, "inch")
Ksi(q) == To(q, "ksi")
Prod3(x, y, z) == RMul(RMul(x, y), z)
Prod4(w, x, y, z) == RMul(RMul(RMul(w, x), y), z)

(***************************************************************************)
(* C1: the factor table of section 4.1.                                    *)
(***************************************************************************)
TableOmega(f) ==
    CASE f = "connected_elem_shear_yield_str"   -> R(150, 100)
      [] f = "connected_elem_tensile_yield_str" -> R(167, 100)
      [] OTHER                                  -> R(200, 100)

TablePhi(f) ==
    CASE f = "connected_elem_shear_yield_str"   -> R(100, 100)
      [] f = "connected_elem_tensile_yield_str" -> R(90, 100)
      [] OTHER                                  -> R(75, 100)

\* net width of a part: len - (dia + 0.063in) * bolt_count
NetWidth(a, len) ==
    RSub(In(len), RMul(RAdd(In(a.bolt_dia), R(63, 1000)), R(a.bolt_count, 1)))

\* net clear distance of a part: edge_dist - (dia + 0.125in) / 2
NetDist(a, edge) ==
    RSub(In(edge), RDiv(RAdd(In(a.bolt_dia), R(125, 1000)), R(2, 1)))

\* nominal strength Rn of section 4 for part i's inputs of call f (for the
\* two bolt functions and weld material strength there is one part)
Nominal(f, a, i) ==
    LET t   == IF i = 1 THEN a.part1_t ELSE a.part2_t
        ult == IF i = 1 THEN a.part1_ult ELSE a.part2_ult
        fy  == IF i = 1 THEN a.part1_yield ELSE a.part2_yield
        len == IF i = 1 THEN a.part1_len ELSE a.part2_len
        edge == IF i = 1 THEN a.part1_edge_dist ELSE a.part2_edge_dist
    IN  CASE f = "shear_strength_bolts" ->
                Prod4(R(45, 100), Ksi(a.f_u), PiOver4, RMul(In(a.bolt_dia), In(a.bolt_dia)))
          [] f = "tensile_strength_bolts" ->
                Prod4(R(75, 100), Ksi(a.f_u), PiOver4, RMul(In(a.bolt_dia), In(a.bolt_dia)))
          [] f = "bearing_strength_bolts" ->
                Prod4(R(24, 10), In(a.bolt_dia), In(t), Ksi(ult))
          [] f = "tearout_strength_bolts" ->
                Prod4(R(12, 10), NetDist(a, edge), In(t), Ksi(ult))
          [] f = "connected_elem_shear_yield_str" ->
                Prod4(R(60, 100), Ksi(fy), In(t), In(len))
          [] f = "connected_elem_shear_rupture_str" ->
                Prod4(R(60, 100), Ksi(ult), In(t), NetWidth(a, len))
          [] f = "connected_elem_tensile_yield_str" ->
                Prod3(Ksi(fy), In(t), In(len))
          [] f = "connected_elem_tensile_rupture_str" ->
                Prod4(Ksi(ult), In(t), NetWidth(a, len), a.shear_lag)
          [] f = "weld_material_strength" ->
                RMul(Prod4(R(60, 100), R(70, 1), Sqrt2Over2, R(a.weld_size, 16)),
                     RMul(In(a.weld_length), R(a.weld_sides, 1)))

\* nominal / Omega under ASD, nominal * phi under LRFD
Governing(f, m, nominal) ==
    IF m = "ASD" THEN RDiv(nominal, TableOmega(f)) ELSE RMul(nominal, TablePhi(f))

Expected(f, a) ==
    IF f \in ScalarLimitStates
    THEN Governing(f, a.design_method, Nominal(f, a, 1))
    ELSE <<Governing(f, a.design_method, Nominal(f, a, 1)),
           Governing(f, a.design_method, Nominal(f, a, 2))>>

\* C1: for each of the nine limit states and every valid input, the ASD
\* result is nominal / Omega and the LRFD result is nominal * phi, with the
\* method-independent nominal strength of section 4 and the (Omega, phi)
\* pair of the table of section 4.1.
C1_FactorTable ==
    (fn \in ScalarLimitStates \cup PairLimitStates /\ DimsOK /\ ValidMethod)
        => ret = Ok(Expected(fn, args))

\* a tensile-yield call under ASD (Omega = 1.67) returned a positive strength
C1_Witness ==
    /\ fn = "connected_elem_tensile_yield_str"
    /\ args.design_method = "ASD"
    /\ ret.kind = "ok"
    /\ RLt(Zero, ret.val[1])
    /\ ret.val[1] = RDiv(Nominal(fn, args, 1), R(167, 100))

(***************************************************************************)
(* C2, C3: error handling.                                                 *)
(***************************************************************************)
\* C2: a call of any of the ten limit-state functions whose design method is
\* neither "ASD" nor "LRFD" ends in the invalid-design-method error (the
\* ValueError "Invalid design method"), whatever the other arguments are.
C2_InvalidMethodRaises ==
    (fn \in LimitStates /\ ~ValidMethod) => ret.kind = "ValueError"

\* C3: weld_rupture_strength with weld_sides neither 1 nor 2 fails with the
\* dedicated InvalidWeldSides error, whatever the other arguments are.
C3_InvalidWeldSidesRaises ==
    (fn = "weld_rupture_strength" /\ args.weld_sides \notin {1, 2})
        => ret.kind = "InvalidWeldSides"

(***************************************************************************)
(* C4: weld_rupture_strength against weld_material_strength.               *)
(***************************************************************************)
\* required_min_t_i = weld_sides * (0.60 * 70 * 0.707 * weld_size / 16) / (0.6 * fu_i)
RequiredMinT(a, ult) ==
    RDiv(RMul(R(a.weld_sides, 1),
              Prod4(R(60, 100), R(70, 1), R(707, 1000), R(a.weld_size, 16))),
         RMul(R(6, 10), Ksi(ult)))

\* reduction_i = t_i / required_min_t_i
Reduction(a, t, ult) == RDiv(In(t), RequiredMinT(a, ult))

WeldArgs(a) ==
    [design_method |-> a.design_method, weld_size |-> a.weld_size,
     weld_length |-> a.weld_length, weld_sides |-> a.weld_sides]

C4_Pre ==
    /\ fn = "weld_rupture_strength"
    /\ DimsOK
    /\ ValidMethod
    /\ args.weld_sides \in {1, 2}
    /\ RLt(Zero, In(args.part1_t)) /\ RLt(Zero, In(args.part2_t))
    /\ RLt(Zero, Ksi(args.part1_ult)) /\ RLt(Zero, Ksi(args.part2_ult))

\* C4: for a valid method, weld_sides in {1, 2} and positive thicknesses and
\* strengths, weld_rupture_strength returns weld_material_strength of the same
\* weld when both reductions are >= 1 and weld_material_strength times the
\* smaller reduction when one is < 1; the result never exceeds
\* weld_material_strength.
C4_WeldRupture ==
    C4_Pre =>
        LET r1  == Reduction(args, args.part1_t, args.part1_ult)
            r2  == Reduction(args, args.part2_t, args.part2_ult)
            wms == weld_material_strength(WeldArgs(args))
        IN  /\ wms.kind = "ok"
            /\ ret.kind = "ok"
            /\ (RLe(One, r1) /\ RLe(One, r2)) => ret.val = wms.val
            /\ (RLt(r1, One) \/ RLt(r2, One)) => ret.val = RMul(wms.val, RMin(r1, r2))
            /\ RLe(ret.val, wms.val)

\* base metal governs: a strictly smaller strength than the weld metal's
C4_Witness ==
    /\ C4_Pre
    /\ ret.kind = "ok"
    /\ RLt(Reduction(args, args.part1_t, args.part1_ult), One)
    /\ RLe(One, Reduction(args, args.part2_t, args.part2_ult))
    /\ RLt(ret.val, weld_material_strength(WeldArgs(args)).val)

(***************************************************************************)
(* C5, C6: min_weld_size.                                                  *)
(***************************************************************************)
TMin(a) == RMin(In(a.part1_t), In(a.part2_t))

\* the step function of the claim, for t_min >= 0
Step(t_min) ==
    IF RLt(t_min, R(1, 4)) THEN R(1250, 10000)
    ELSE IF RLt(t_min, R(1, 2)) THEN R(1875, 10000)
    ELSE IF RLt(t_min, R(3, 4)) THEN R(2500, 10000)
    ELSE R(3125, 10000)

WeldSizeValues == {R(1250, 10000), R(1875, 10000), R(2500, 10000), R(3125, 10000)}

C5_Pre == fn = "min_weld_size" /\ DimsOK /\ RLe(Zero, TMin(args))

\* C5: for t_min = min(t1, t2) >= 0, min_weld_size returns the bracket of
\* t_min alone (0.1250 below 0.25, 0.1875 on [0.25, 0.5), 0.2500 on
\* [0.5, 0.75), 0.3125 from 0.75 on), each threshold belonging to the upper
\* bracket; the result is the same with t1 and t2 swapped and is
\* non-decreasing in t_min.
C5_StepFunction ==
    C5_Pre =>
        /\ ret = Ok(Step(TMin(args)))
        /\ ret.val \in WeldSizeValues
        /\ (TMin(args) = R(1, 4)) => ret.val = R(1875, 10000)
        /\ (TMin(args) = R(1, 2)) => ret.val = R(2500, 10000)
        /\ (TMin(args) = R(3, 4)) => ret.val = R(3125, 10000)
        /\ min_weld_size([part1_t |-> args.part2_t, part2_t |-> args.part1_t]) = ret
        /\ \A t1 \in WeldThickSet, t2 \in WeldThickSet :
             LET b == [part1_t |-> t1, part2_t |-> t2]
             IN  (min_weld_size_Dims(b) /\ RLe(TMin(args), TMin(b)))
                    => RLe(ret.val, min_weld_size(b).val)

\* a metric thickness exactly on the 0.25in threshold (6.35mm) was classified
C5_Witness ==
    /\ C5_Pre
    /\ args.part1_t.unit = "mm"
    /\ TMin(args) = R(1, 4)
    /\ RLt(R(1, 4), In(args.part2_t))
    /\ ret = Ok(R(1875, 10000))

\* C6 as stated: for min(t1, t2) < 0 min_weld_size returns no value, none of
\* the four weld sizes.
C6_NegativeReturnsNoValue ==
    (fn = "min_weld_size" /\ DimsOK /\ RLt(TMin(args), Zero))
        => (ret.kind = "ok" /\ ret.val \notin WeldSizeValues)

\* C6 as amended: for min(t1, t2) < 0 min_weld_size returns 0.1250, the
\* bracket of every t_min < 0.25.
C6_NegativeReturnsSmallest ==
    (fn = "min_weld_size" /\ DimsOK /\ RLt(TMin(args), Zero))
        => ret = Ok(R(1250, 10000))

\* a call with one negative and one thick part returned 0.1250
C6_Witness ==
    /\ fn = "min_weld_size"
    /\ DimsOK
    /\ RLt(In(args.part1_t), Zero)
    /\ RLe(R(3, 4), In(args.part2_t))
    /\ ret = Ok(R(1250, 10000))

(***************************************************************************)
(* C7: the two components of a pair result are independent.                *)
(***************************************************************************)
\* the pair-returning function named f
Apply(f, a) ==
    CASE f = "bearing_strength_bolts" -> bearing_strength_bolts(a)
      [] f = "tearout_strength_bolts" -> tearout_strength_bolts(a)
      [] f = "connected_elem_shear_yield_str" -> connected_elem_shear_yield_str(a)
      [] f = "connected_elem_shear_rupture_str" -> connected_elem_shear_rupture_str(a)
      [] f = "connected_elem_tensile_yield_str" -> connected_elem_tensile_yield_str(a)
      [] f = "connected_elem_tensile_rupture_str" -> connected_elem_tensile_rupture_str(a)

HasEdge(f) == f = "tearout_strength_bolts"
HasLen(f) == f \notin {"bearing_strength_bolts", "tearout_strength_bolts"}
HasYield(f) == f \in {"connected_elem_shear_yield_str", "connected_elem_tensile_yield_str"}

\* the calls that differ from a in exactly one input of part 2 (thickness,
\* length, edge distance or strength)
VaryPart2(f, a) ==
    {[a EXCEPT !.part2_t = t] : t \in ThickSet}
      \cup (IF HasYield(f) THEN {[a EXCEPT !.part2_yield = y] : y \in YieldSet}
            ELSE {[a EXCEPT !.part2_ult = u] : u \in UltSet})
      \cup (IF HasLen(f) THEN {[a EXCEPT !.part2_len = l] : l \in LenSet} ELSE {})
      \cup (IF HasEdge(f) THEN {[a EXCEPT !.part2_edge_dist = d] : d \in EdgeSet} ELSE {})

VaryPart1(f, a) ==
    {[a EXCEPT !.part1_t = t] : t \in ThickSet}
      \cup (IF HasYield(f) THEN {[a EXCEPT !.part1_yield = y] : y \in YieldSet}
            ELSE {[a EXCEPT !.part1_ult = u] : u \in UltSet})
      \cup (IF HasLen(f) THEN {[a EXCEPT !.part1_len = l] : l \in LenSet} ELSE {})
      \cup (IF HasEdge(f) THEN {[a EXCEPT !.part1_edge_dist = d] : d \in EdgeSet} ELSE {})

C7_Pre == fn \in PairLimitStates /\ DimsOK /\ ValidMethod

\* C7: each two-part limit-state function returns an ordered pair whose
\* part-i component is the factored nominal strength of part i's own inputs
\* (for bearing: the factor applied to 2.4 * dia * t_i * f_u_i); changing only
\* the other part's thickness, length, edge distance or strength leaves it
\* unchanged, and neither component is replaced by the minimum of the two.
C7_PartsIndependent ==
    C7_Pre =>
        /\ ret.kind = "ok"
        /\ Len(ret.val) = 2
        /\ ret.val[1] = Governing(fn, args.design_method, Nominal(fn, args, 1))
        /\ ret.val[2] = Governing(fn, args.design_method, Nominal(fn, args, 2))
        /\ \A b \in VaryPart2(fn, args) : Apply(fn, b).val[1] = ret.val[1]
        /\ \A b \in VaryPart1(fn, args) : Apply(fn, b).val[2] = ret.val[2]
        /\ (fn = "bearing_strength_bolts") =>
             \A i \in {1, 2} :
               LET t == IF i = 1 THEN args.part1_t ELSE args.part2_t
                   u == IF i = 1 THEN args.part1_ult ELSE args.part2_ult
                   rn == Prod4(R(24, 10), In(args.bolt_dia), In(t), Ksi(u))
               IN  ret.val[i] = IF args.design_method = "ASD"
                                THEN RDiv(rn, R(2, 1)) ELSE RMul(R(75, 100), rn)

\* a bearing call returned a part-1 strength above the part-2 strength: the
\* larger component is not replaced by the governing minimum
C7_Witness ==
    /\ fn = "bearing_strength_bolts"
    /\ C7_Pre
    /\ ret.kind = "ok"
    /\ RLt(Zero, ret.val[2])
    /\ RLt(ret.val[2], ret.val[1])

(***************************************************************************)
(* C8: tearout_strength_bolts.                                             *)
(***************************************************************************)
\* (dia + 0.125in) / 2
HalfHole(a) == RDiv(RAdd(In(a.bolt_dia), R(125, 1000)), R(2, 1))

C8_Pre == fn = "tearout_strength_bolts" /\ DimsOK /\ ValidMethod

\* C8: tearout_strength_bolts returns, per part, the factored nominal
\* strength 1.2 * (edge_dist_i - (dia + 0.125in) / 2) * t_i * f_u_i; for a
\* valid method and positive t_i and f_u_i the call returns normally with a
\* part-i result <= 0 whenever edge_dist_i <= (dia + 0.125in) / 2, and > 0
\* whenever edge_dist_i > (dia + 0.125in) / 2.
C8_Tearout ==
    C8_Pre =>
        /\ ret.kind = "ok"
        /\ \A i \in {1, 2} :
             LET t    == IF i = 1 THEN args.part1_t ELSE args.part2_t
                 u    == IF i = 1 THEN args.part1_ult ELSE args.part2_ult
                 edge == IF i = 1 THEN args.part1_edge_dist ELSE args.part2_edge_dist
                 net  == RSub(In(edge), HalfHole(args))
                 rn   == Prod4(R(12, 10), net, In(t), Ksi(u))
             IN  /\ ret.val[i] = IF args.design_method = "ASD"
                                 THEN RDiv(rn, R(2, 1)) ELSE RMul(rn, R(75, 100))
                 /\ (RLt(Zero, In(t)) /\ RLt(Zero, Ksi(u))) =>
                       /\ RLe(In(edge), HalfHole(args)) => RLe(ret.val[i], Zero)
                       /\ RLt(HalfHole(args), In(edge)) => RLt(Zero, ret.val[i])

\* part 1's bolt hole overlaps its edge (negative net distance, negative
\* strength returned without error) while part 2 has a positive strength
C8_Witness ==
    /\ C8_Pre
    /\ ret.kind = "ok"
    /\ RLt(Zero, In(args.part1_t))
    /\ RLt(In(args.part1_edge_dist), HalfHole(args))
    /\ RLt(ret.val[1], Zero)
    /\ RLt(Zero, ret.val[2])

(***************************************************************************)
(* C9, C10: net-section rupture of connected elements.                     *)
(***************************************************************************)
C9_Pre == fn = "connected_elem_shear_rupture_str" /\ DimsOK /\ ValidMethod

\* C9: connected_elem_shear_rupture_str returns, per part, the factored
\* nominal strength 0.60 * fu_i * t_i * (len_i - (dia + 0.063in) * bolt_count);
\* for a valid method and positive t_i and fu_i the call returns normally
\* with a part-i result <= 0 whenever the net width is <= 0, and the result
\* is strictly decreasing in bolt_count.
C9_ShearRupture ==
    C9_Pre =>
        /\ ret.kind = "ok"
        /\ \A i \in {1, 2} :
             LET t   == IF i = 1 THEN args.part1_t ELSE args.part2_t
                 u   == IF i = 1 THEN args.part1_ult ELSE args.part2_ult
                 len == IF i = 1 THEN args.part1_len ELSE args.part2_len
                 net_width == RSub(In(len),
                                   RMul(RAdd(In(args.bolt_dia), R(63, 1000)),
                                        R(args.bolt_count, 1)))
                 area == RMul(In(t), net_width)
                 rn   == Prod3(R(60, 100), Ksi(u), area)
             IN  /\ ret.val[i] = IF args.design_method = "ASD"
                                 THEN RDiv(rn, R(2, 1)) ELSE RMul(rn, R(75, 100))
                 /\ (RLt(Zero, In(t)) /\ RLt(Zero, Ksi(u))) =>
                       /\ RLe(net_width, Zero) => RLe(ret.val[i], Zero)
                       /\ \A n \in BoltCounts :
                            (n > args.bolt_count) =>
                               RLt(connected_elem_shear_rupture_str(
                                       [args EXCEPT !.bolt_count = n]).val[i],
                                   ret.val[i])

\* the bolt holes consume more than part 1's length: a negative strength is
\* returned without error
C9_Witness ==
    /\ C9_Pre
    /\ ret.kind = "ok"
    /\ args.bolt_count >= 2
    /\ RLt(Zero, In(args.part1_t))
    /\ RLt(NetWidth(args, args.part1_len), Zero)
    /\ RLt(ret.val[1], Zero)

ShearRuptureArgs(a) ==
    [design_method |-> a.design_method, bolt_dia |-> a.bolt_dia,
     bolt_count |-> a.bolt_count,
     part1_t |-> a.part1_t, part1_len |-> a.part1_len, part1_ult |-> a.part1_ult,
     part2_t |-> a.part2_t, part2_len |-> a.part2_len, part2_ult |-> a.part2_ult]

C10_Pre == fn = "connected_elem_tensile_rupture_str" /\ DimsOK /\ ValidMethod

\* C10: connected_elem_tensile_rupture_str returns, per part, the factored
\* (2.00, 0.75) nominal strength fu_i * t_i * (len_i - (dia + 0.063in) *
\* bolt_count) * shear_lag; for the same method, dia, bolt_count and part
\* inputs the shear rupture result is 0.60 times the tensile rupture result
\* at shear_lag = 1, and the tensile rupture result is linear in shear_lag.
C10_TensileRupture ==
    C10_Pre =>
        LET unit  == connected_elem_tensile_rupture_str([args EXCEPT !.shear_lag = One])
            shear == connected_elem_shear_rupture_str(ShearRuptureArgs(args))
        IN  /\ ret.kind = "ok" /\ unit.kind = "ok" /\ shear.kind = "ok"
            /\ \A i \in {1, 2} :
                 LET t   == IF i = 1 THEN args.part1_t ELSE args.part2_t
                     u   == IF i = 1 THEN args.part1_ult ELSE args.part2_ult
                     len == IF i = 1 THEN args.part1_len ELSE args.part2_len
                     rn  == Prod4(Ksi(u), In(t), NetWidth(args, len), args.shear_lag)
                 IN  /\ ret.val[i] = IF args.design_method = "ASD"
                                     THEN RDiv(rn, R(2, 1)) ELSE RMul(rn, R(75, 100))
                     /\ shear.val[i] = RMul(R(60, 100), unit.val[i])
                     /\ ret.val[i] = RMul(args.shear_lag, unit.val[i])
                     /\ \A lag \in ShearLags :
                          RMul(lag, ret.val[i]) =
                            RMul(args.shear_lag,
                                 connected_elem_tensile_rupture_str(
                                     [args EXCEPT !.shear_lag = lag]).val[i])

\* a call with shear_lag = 3/4 returned a positive part-1 strength, 3/4 of
\* the strength at shear_lag = 1
C10_Witness ==
    /\ C10_Pre
    /\ ret.kind = "ok"
    /\ args.shear_lag = R(3, 4)
    /\ args.bolt_count >= 1
    /\ RLt(Zero, ret.val[1])
    /\ RLt(ret.val[1],
           connected_elem_tensile_rupture_str([args EXCEPT !.shear_lag = One]).val[1])

(***************************************************************************)
(* Calls whose quantities are given in every unit of the registry that the *)
(* model knows: the same physical quantity in the canonical unit, in the   *)
(* other unit of its dimension, and a quantity of the wrong dimension.     *)
(***************************************************************************)
\* how many units u make one canonical unit (25.4 mm = 1 inch, 1000 psi = 1 ksi)
UnitsPerCanonical(u) ==
    CASE u = "inch" -> R(1, 1)
      [] u = "mm"   -> R(254, 10)
      [] u = "ksi"  -> R(1, 1)
      [] u = "psi"  -> R(1000, 1)

\* the quantity of v canonical units, expressed in unit u
Express(v, u) == [mag |-> RMul(v, UnitsPerCanonical(u)), unit |-> u]

\* a length of v inches in inch and in mm, and the stress v ksi in its place
Lengths(v) == {Express(v, "inch"), Express(v, "mm"), Express(v, "ksi")}

\* a stress of v ksi in ksi and in psi, and the length v inch in its place
Stresses(v) == {Express(v, "ksi"), Express(v, "psi"), Express(v, "inch")}

Units_nominal_fastener_strength ==
    /\ fn = "none"
    /\ UNCHANGED design_method
    /\ \E f \in Stresses(R(120, 1)) :
         /\ fn' = "nominal_fastener_strength"
         /\ args' = [f_u |-> f]
         /\ ret' = nominal_fastener_strength(f)

Units_shear_strength_bolts ==
    /\ fn = "none"
    /\ UNCHANGED design_method
    /\ \E d \in Lengths(R(3, 4)), f \in Stresses(R(120, 1)) :
         LET a == [design_method |-> design_method, bolt_dia |-> d, f_u |-> f]
         IN  /\ fn' = "shear_strength_bolts"
             /\ args' = a
             /\ ret' = shear_strength_bolts(a)

Units_tensile_strength_bolts ==
    /\ fn = "none"
    /\ UNCHANGED design_method
    /\ \E d \in Lengths(R(3, 4)), f \in Stresses(R(120, 1)) :
         LET a == [design_method |-> design_method, bolt_dia |-> d, f_u |-> f]
         IN  /\ fn' = "tensile_strength_bolts"
             /\ args' = a
             /\ ret' = tensile_strength_bolts(a)

Units_bearing_strength_bolts ==
    /\ fn = "none"
    /\ UNCHANGED design_method
    /\ \E d \in Lengths(R(3, 4)), t1 \in Lengths(R(1, 2)), t2 \in Lengths(R(3, 8)),
          u1 \in Stresses(R(58, 1)), u2 \in Stresses(R(65, 1)) :
         LET a == [design_method |-> design_method, bolt_dia |-> d,
                   part1_t |-> t1, part1_ult |-> u1,
                   part2_t |-> t2, part2_ult |-> u2]
         IN  /\ fn' = "bearing_strength_bolts"
             /\ args' = a
             /\ ret' = bearing_strength_bolts(a)

Units_tearout_strength_bolts ==
    /\ fn = "none"
    /\ UNCHANGED design_method
    /\ \E d \in Lengths(R(3, 4)), e1 \in Lengths(R(3, 2)), e2 \in Lengths(R(1, 4)),
          t1 \in Lengths(R(1, 2)), t2 \in Lengths(R(3, 8)),
          u1 \in Stresses(R(58, 1)), u2 \in Stresses(R(65, 1)) :
         LET a == [design_method |-> design_method, bolt_dia |-> d,
                   part1_edge_dist |-> e1, part2_edge_dist |-> e2,
                   part1_t |-> t1, part1_ult |-> u1,
                   part2_t |-> t2, part2_ult |-> u2]
         IN  /\ fn' = "tearout_strength_bolts"
             /\ args' = a
             /\ ret' = tearout_strength_bolts(a)

Units_connected_elem_shear_yield_str ==
    /\ fn = "none"
    /\ UNCHANGED design_method
    /\ \E t1 \in Lengths(R(1, 2)), t2 \in Lengths(R(3, 8)),
          l1 \in Lengths(R(3, 1)), l2 \in Lengths(R(4, 1)),
          y1 \in Stresses(R(36, 1)), y2 \in Stresses(R(50, 1)) :
         LET a == [design_method |-> design_method,
                   part1_t |-> t1, part1_len |-> l1, part1_yield |-> y1,
                   part2_t |-> t2, part2_len |-> l2, part2_yield |-> y2]
         IN  /\ fn' = "connected_elem_shear_yield_str"
             /\ args' = a
             /\ ret' = connected_elem_shear_yield_str(a)

Units_connected_elem_tensile_yield_str ==
    /\ fn = "none"
    /\ UNCHANGED design_method
    /\ \E t1 \in Lengths(R(1, 2)), t2 \in Lengths(R(3, 8)),
          l1 \in Lengths(R(3, 1)), l2 \in Lengths(R(4, 1)),
          y1 \in Stresses(R(36, 1)), y2 \in Stresses(R(50, 1)) :
         LET a == [design_method |-> design_method,
                   part1_t |-> t1, part1_len |-> l1, part1_yield |-> y1,
                   part2_t |-> t2, part2_len |-> l2, part2_yield |-> y2]
         IN  /\ fn' = "connected_elem_tensile_yield_str"
             /\ args' = a
             /\ ret' = connected_elem_tensile_yield_str(a)

Units_connected_elem_shear_rupture_str ==
    /\ fn = "none"
    /\ UNCHANGED design_method
    /\ \E d \in Lengths(R(3, 4)),
          t1 \in Lengths(R(1, 2)), t2 \in Lengths(R(3, 8)),
          l1 \in Lengths(R(3, 1)), l2 \in Lengths(R(4, 1)),
          u1 \in Stresses(R(58, 1)), u2 \in Stresses(R(65, 1)) :
         LET a == [design_method |-> design_method, bolt_dia |-> d, bolt_count |-> 2,
                   part1_t |-> t1, part1_len |-> l1, part1_ult |-> u1,
                   part2_t |-> t2, part2_len |-> l2, part2_ult |-> u2]
         IN  /\ fn' = "connected_elem_shear_rupture_str"
             /\ args' = a
             /\ ret' = connected_elem_shear_rupture_str(a)

Units_connected_elem_tensile_rupture_str ==
    /\ fn = "none"
    /\ UNCHANGED design_method
    /\ \E d \in Lengths(R(3, 4)),
          t1 \in Lengths(R(1, 2)), t2 \in Lengths(R(3, 8)),
          l1 \in Lengths(R(3, 1)), l2 \in Lengths(R(4, 1)),
          u1 \in Stresses(R(58, 1)), u2 \in Stresses(R(65, 1)) :
         LET a == [design_method |-> design_method, bolt_dia |-> d, bolt_count |-> 2,
                   shear_lag |-> R(3, 4),
                   part1_t |-> t1, part1_len |-> l1, part1_ult |-> u1,
                   part2_t |-> t2, part2_len |-> l2, part2_ult |-> u2]
         IN  /\ fn' = "connected_elem_tensile_rupture_str"
             /\ args' = a
             /\ ret' = connected_elem_tensile_rupture_str(a)

Units_min_weld_size ==
    /\ fn = "none"
    /\ UNCHANGED design_method
    /\ \E k1 \in 1..3, k2 \in 1..3 :
       \E t1 \in Lengths(R(k1, 4)), t2 \in Lengths(R(k2, 4)) :
         LET a == [part1_t |-> t1, part2_t |-> t2]
         IN  /\ fn' = "min_weld_size"
             /\ args' = a
             /\ ret' = min_weld_size(a)

Units_weld_material_strength ==
    /\ fn = "none"
    /\ UNCHANGED design_method
    /\ \E w \in WeldSizes, l \in Lengths(R(6, 1)), k \in WeldSides :
         LET a == [design_method |-> design_method, weld_size |-> w,
                   weld_length |-> l, weld_sides |-> k]
         IN  /\ fn' = "weld_material_strength"
             /\ args' = a
             /\ ret' = weld_material_strength(a)

Units_weld_rupture_strength ==
    /\ fn = "none"
    /\ UNCHANGED design_method
    /\ \E w \in WeldSizes, l \in Lengths(R(6, 1)), k \in WeldSides,
          t1 \in Lengths(R(1, 8)), t2 \in Lengths(R(1, 2)),
          u1 \in Stresses(R(58, 1)), u2 \in Stresses(R(65, 1)) :
         LET a == [design_method |-> design_method, weld_size |-> w,
                   weld_length |-> l, weld_sides |-> k,
                   part1_t |-> t1, part1_ult |-> u1,
                   part2_t |-> t2, part2_ult |-> u2]
         IN  /\ fn' = "weld_rupture_strength"
             /\ args' = a
             /\ ret' = weld_rupture_strength(a)

NextUnits ==
    \/ Units_nominal_fastener_strength
    \/ Units_shear_strength_bolts
    \/ Units_tensile_strength_bolts
    \/ Units_bearing_strength_bolts
    \/ Units_tearout_strength_bolts
    \/ Units_connected_elem_shear_yield_str
    \/ Units_connected_elem_tensile_yield_str
    \/ Units_connected_elem_shear_rupture_str
    \/ Units_connected_elem_tensile_rupture_str
    \/ Units_min_weld_size
    \/ Units_weld_material_strength
    \/ Units_weld_rupture_strength

SpecUnits == Init /\ [][NextUnits]_vars

(***************************************************************************)
(* C11: unit invariance.                                                   *)
(***************************************************************************)
QuantityFields ==
    {"f_u", "bolt_dia", "weld_length",
     "part1_t", "part1_ult", "part1_yield", "part1_len", "part1_edge_dist",
     "part2_t", "part2_ult", "part2_yield", "part2_len", "part2_edge_dist"}

\* the same physical quantity in the canonical unit of its dimension
\* (1 inch = 25.4 mm, 1 ksi = 1000 psi)
Canonical(q) ==
    [mag  |-> RDiv(q.mag, UnitsPerCanonical(q.unit)),
     unit |-> IF q.unit \in {"inch", "mm"} THEN "inch" ELSE "ksi"]

\* the same physical quantity in the other unit of its dimension
Metric(q) ==
    LET c == Canonical(q)
    IN  IF c.unit = "inch" THEN [mag |-> RMul(c.mag, R(254, 10)), unit |-> "mm"]
        ELSE [mag |-> RMul(c.mag, R(1000, 1)), unit |-> "psi"]

CanonicalArgs(a) ==
    [f \in DOMAIN a |-> IF f \in QuantityFields THEN Canonical(a[f]) ELSE a[f]]

MetricArgs(a) ==
    [f \in DOMAIN a |-> IF f \in QuantityFields THEN Metric(a[f]) ELSE a[f]]

\* the public function named f
CallAny(f, a) ==
    CASE f = "nominal_fastener_strength" -> nominal_fastener_strength(a.f_u)
      [] f = "shear_strength_bolts" -> shear_strength_bolts(a)
      [] f = "tensile_strength_bolts" -> tensile_strength_bolts(a)
      [] f = "min_weld_size" -> min_weld_size(a)
      [] f = "weld_material_strength" -> weld_material_strength(a)
      [] f = "weld_rupture_strength" -> weld_rupture_strength(a)
      [] OTHER -> Apply(f, a)

BaseMetalGoverns(a) ==
    \/ RLt(Reduction(a, a.part1_t, a.part1_ult), One)
    \/ RLt(Reduction(a, a.part2_t, a.part2_ult), One)

\* factor * (sqrt(2)/2 / 0.707) * 0.6 * fu_k * t_k * weld_length for the part
\* k with the smaller reduction
BaseMetalStrength(a) ==
    LET r1 == Reduction(a, a.part1_t, a.part1_ult)
        r2 == Reduction(a, a.part2_t, a.part2_ult)
        fu == IF RLe(r1, r2) THEN Ksi(a.part1_ult) ELSE Ksi(a.part2_ult)
        t  == IF RLe(r1, r2) THEN In(a.part1_t) ELSE In(a.part2_t)
        nominal == RMul(Prod4(RDiv(Sqrt2Over2, R(707, 1000)), R(6, 10), fu, t),
                        In(a.weld_length))
    IN  Governing("weld_rupture_strength", a.design_method, nominal)

\* the same joint with another weld size and number of sides
OtherWeld(a, w, k) == [a EXCEPT !.weld_size = w, !.weld_sides = k]

\* C12: when a reduction is < 1 (valid method, weld_sides in {1, 2}, positive
\* inputs) the returned strength is factor * (sqrt(2)/2 / 0.707) * 0.6 * fu_k
\* * t_k * weld_length for the part k with the smaller reduction; every other
\* weld size and number of sides under which base metal governs too returns
\* the same strength, and a larger weld or welding both sides keeps base
\* metal governing, so it returns the same strength and not a higher one.
C12_BaseMetalCancels ==
    (C4_Pre /\ BaseMetalGoverns(args)) =>
        /\ ret = Ok(BaseMetalStrength(args))
        /\ \A w \in WeldSizes, k \in {1, 2} :
             LET b == OtherWeld(args, w, k)
             IN  /\ BaseMetalGoverns(b) => weld_rupture_strength(b) = ret
                 /\ (w >= args.weld_size /\ k >= args.weld_sides) =>
                        /\ BaseMetalGoverns(b)
                        /\ RLe(weld_rupture_strength(b).val, ret.val)

\* base metal governs a two-sided weld of the largest size, which returns
\* what the smaller one-sided weld of strictly lower weld-metal strength
\* returns, base metal governing there too
C12_Witness ==
    /\ C4_Pre
    /\ BaseMetalGoverns(args)
    /\ args.weld_sides = 2
    /\ args.weld_size = MaxWeldSize
    /\ ret = Ok(BaseMetalStrength(args))
    /\ LET b == OtherWeld(args, MaxWeldSize - 1, 1)
       IN  /\ BaseMetalGoverns(b)
           /\ weld_rupture_strength(b) = ret
           /\ RLt(weld_material_strength(WeldArgs(b)).val,
                  weld_material_strength(WeldArgs(args)).val)

====
